---- MODULE Spec2Model ----
(***************************************************************************)
(* Model of npm-rs (src/src/lib.rs): the Build configuration builder, the  *)
(* staging of project files into the target directory (copy_to_target)     *)
(* and the install/run orchestration of Build::run_script.                 *)
(*                                                                         *)
(* The file system, the npm executable and the process environment are     *)
(* the environment of the program.  A directory tree is a function from    *)
(* relative paths (sequences of names) to "dir" or a file's content.       *)
(* A panic ends the build script: no operation follows it.                 *)
(***************************************************************************)
EXTENDS Integers, Sequences, FiniteSets, TLC

VARIABLES
    project_directory,  \* Build.project_directory: the spelling of the path
    copy,               \* Build.copy: CopyItems
    target_directory,   \* Build.target_directory: the spelling of the path
    installed,          \* Build.installed
    node_env,           \* Build.node_env: NodeEnv
    release,            \* the build profile: TRUE iff debug_assertions is off
    ambient,            \* the NODE_ENV variable of the process environment
    fs,                 \* the file system: physical directory -> [exists, tree]
    log,                \* the effects of the call made last, in order; <<>> after a setter
    panic,              \* "none", or the kind of the panic that ended the build
    procs               \* npm invocations so far, with the directory changes

vars == <<project_directory, copy, target_directory, installed, node_env,
          release, ambient, fs, log, panic, procs>>

----------------------------------------------------------------------------
(* Bounds of the model *)

\* run_script calls explored in one behaviour
MaxCalls == 2

\* longest list handed to copy_items
MaxItems == 2

----------------------------------------------------------------------------
(* Values *)

\* enum CopyItems
CopyNothing == [tag |-> "Nothing", items |-> <<>>]
CopyAll == [tag |-> "All", items |-> <<>>]
CopySome(items) == [tag |-> "Some", items |-> items]

\* enum NodeEnv
Production == [tag |-> "Production", str |-> ""]
Development == [tag |-> "Development", str |-> ""]
Custom(s) == [tag |-> "Custom", str |-> s]

\* NodeEnv::to_env_var
to_env_var(e) ==
    CASE e.tag = "Production" -> "production"
      [] e.tag = "Development" -> "development"
      [] OTHER -> e.str

\* is_release(): !cfg!(debug_assertions)
is_release == release

\* the value of env::var("NODE_ENV") when the variable is not set
Unset == [set |-> FALSE, val |-> ""]
SetTo(s) == [set |-> TRUE, val |-> s]

\* node_env_default with the two build profiles exchanged
node_env_default_swapped(var, rel) ==
    IF var.set
    THEN CASE var.val = "production" -> Production
           [] var.val = "development" -> Development
           [] OTHER -> Custom(var.val)
    ELSE IF rel THEN Development ELSE Production

\* fn node_env(): the default NodeEnv of Build::new
node_env_default(var, rel) ==
    IF var.set
    THEN CASE var.val = "production" -> Production
           [] var.val = "development" -> Development
           [] OTHER -> Custom(var.val)
    ELSE IF rel THEN Production ELSE Development

\* node_env_of with the empty string taken for no value
node_env_of_nonempty(value) ==
    CASE value = "production" -> Production
      [] value = "development" -> Development
      [] value = "" -> Development
      [] OTHER -> Custom(value)

\* Build::node_env(value): the NodeEnv the setter stores
node_env_of(value) ==
    CASE value = "production" -> Production
      [] value = "development" -> Development
      [] OTHER -> Custom(value)

----------------------------------------------------------------------------
(* Paths and the file system *)

\* a PathBuf handed to copy_items: absolute or relative, with its components
RelPath(comps) == [abs |-> FALSE, comps |-> comps]
AbsPath(comps) == [abs |-> TRUE, comps |-> comps]

\* Path::is_absolute
is_absolute(p) == p.abs

\* The directory a spelling of a directory path names.  "" is the current
\* directory, the directory of build.rs; "/proj" is the same directory
\* spelled absolutely (CARGO_MANIFEST_DIR); "out" is another directory.
Resolve(d) == IF d = "out" THEN "out" ELSE "cwd"

PhysDirs == {"cwd", "out"}

IsPrefix(p, q) == Len(p) <= Len(q) /\ SubSeq(q, 1, Len(p)) = p

Last(p) == p[Len(p)]

EmptyTree == [q \in {} |-> "dir"]

NoDir == [exists |-> FALSE, tree |-> EmptyTree]

\* fs_extra remove of one entry: the entry and all below it; a missing
\* entry is no error
RemoveEntry(t, p) == [q \in {r \in DOMAIN t : ~IsPrefix(p, r)} |-> t[q]]

\* the tree t with the entries of u added or replaced
Overlay(t, u) ==
    [q \in DOMAIN t \cup DOMAIN u |-> IF q \in DOMAIN u THEN u[q] ELSE t[q]]

\* the entries of t at and below p
Subtree(t, p) == [q \in {r \in DOMAIN t : IsPrefix(p, r)} |-> t[q]]

\* the entries of t at and below p, named as at and below r
Moved(t, p, r) ==
    LET src == {q \in DOMAIN t : IsPrefix(p, q)}
        to(q) == r \o SubSeq(q, Len(p) + 1, Len(q))
    IN  [d \in {to(q) : q \in src} |->
            t[CHOOSE q \in src : to(q) = d]]


\* DirOptions order is the order of read_dir, which the platform chooses:
\* every order of the set S is possible
Orders(S) ==
    {l \in [1..Cardinality(S) -> S] : \A i, j \in 1..Cardinality(S) : l[i] = l[j] => i = j}

\* get_folder_contents without the filter on the name node_modules
get_folder_contents_unfiltered(f, dir) ==
    IF ~f[Resolve(dir)].exists
    THEN {}
    ELSE LET t == f[Resolve(dir)].tree
             names == {q[1] : q \in {r \in DOMAIN t : Len(r) = 1}}
         IN  Orders({RelPath(<<n>>) : n \in names})

\* get_folder_contents(dir): the possible results; none when read_dir fails
get_folder_contents(f, dir) ==
    IF ~f[Resolve(dir)].exists
    THEN {}
    ELSE LET t == f[Resolve(dir)].tree
             names == {q[1] : q \in {r \in DOMAIN t : Len(r) = 1}}
         IN  Orders({RelPath(<<n>>) : n \in names \ {"node_modules"}})

RECURSIVE RemoveItems(_, _, _)
\* fs_extra::remove_items(to.join(p) for p in items): [fs, events]
RemoveItems(f, to, items) ==
    IF items = <<>>
    THEN [fs |-> f, events |-> <<>>]
    ELSE LET p == Head(items).comps
             g == [f EXCEPT ![Resolve(to)].tree = RemoveEntry(@, p)]
             rest == RemoveItems(g, to, Tail(items))
         IN  [fs |-> rest.fs,
              events |-> <<[e |-> "remove", dir |-> to, path |-> p]>> \o rest.events]

\* The part of fs_extra::copy_items for one item from.join(p): it is copied
\* into the directory `to` under its last component.  CopyOptions::new()
\* neither overwrites nor skips: an existing destination file is an error.
\* The possible results [fs, ok]; a directory is copied file by file in the
\* order of read_dir, so a failure leaves any part of the rest copied.
CopyItem(f, from, to, p) ==
    LET S == f[Resolve(from)]
        D == f[Resolve(to)].tree
        src == p.comps
        dst == <<Last(src)>>
        put(u) == [f EXCEPT ![Resolve(to)].tree = Overlay(@, u)]
    IN  IF ~S.exists \/ src \notin DOMAIN S.tree
        THEN {[fs |-> f, ok |-> FALSE]}
        ELSE IF S.tree[src] # "dir"
        THEN IF dst \in DOMAIN D
             THEN {[fs |-> f, ok |-> FALSE]}
             ELSE {[fs |-> put(Moved(S.tree, src, dst)), ok |-> TRUE]}
        ELSE LET m == Moved(S.tree, src, dst)
                 dirs == {q \in DOMAIN m : m[q] = "dir"}
                 files == DOMAIN m \ dirs
                 blocked(q) == \E k \in 1..Len(q) :
                                  /\ SubSeq(q, 1, k) \in DOMAIN D
                                  /\ D[SubSeq(q, 1, k)] # "dir"
                 clash == {q \in files : q \in DOMAIN D \/ blocked(q)}
                 part(c) == [q \in dirs \cup c |-> m[q]]
             IN  IF \E d \in dirs : blocked(d)
                 THEN {[fs |-> f, ok |-> FALSE]}
                 ELSE IF clash = {}
                 THEN {[fs |-> put(m), ok |-> TRUE]}
                 ELSE {[fs |-> put(part(c)), ok |-> FALSE] : c \in SUBSET (files \ clash)}

RECURSIVE CopyItems(_, _, _, _)
\* fs_extra::copy_items(from.join(p) for p in items, to): the possible
\* results [fs, ok, events]; it stops at the first item that fails
CopyItems(f, from, to, items) ==
    IF items = <<>>
    THEN {[fs |-> f, ok |-> TRUE, events |-> <<>>]}
    ELSE LET p == Head(items)
             ev(ok) == <<[e |-> "copy", from |-> from, path |-> p.comps,
                          dir |-> to, dest |-> <<Last(p.comps)>>, ok |-> ok]>>
         IN  UNION {
                 IF r.ok
                 THEN {[fs |-> s.fs, ok |-> s.ok, events |-> ev(TRUE) \o s.events] :
                          s \in CopyItems(r.fs, from, to, Tail(items))}
                 ELSE {[fs |-> r.fs, ok |-> FALSE, events |-> ev(FALSE)]} :
                 r \in CopyItem(f, from, to, p)}

\* the panic messages of the crate
NoPanic == "none"
PanicNoItems == "Target directory selected but no items to copy there"
PanicAbsolute == "Items to be copied cannot be absolute paths"
\* the message of Result::unwrap on a file system error
PanicFs == "called Result::unwrap on an Err value"
PanicNoNpm == "Could not find npm installation"
PanicMkdir == "Could not create target directory"
PanicInstallStart == "Could not run npm install/ci"
PanicInstallExit == "Npm install/ci failed with a non 0 exit code"
PanicRunStart == "Could not start npm"
PanicRunExit == "Npm finished with a non 0 exit code"

\* item_list_of with CopyItems::Nothing taken as an empty list of items
item_list_of_lenient(config, from, f) ==
    CASE config.tag = "Nothing" -> [err |-> NoPanic, lists |-> {<<>>}]
      [] config.tag = "All" ->
            IF get_folder_contents(f, from) = {}
            THEN [err |-> PanicFs, lists |-> {}]
            ELSE [err |-> NoPanic, lists |-> get_folder_contents(f, from)]
      [] OTHER -> [err |-> NoPanic, lists |-> {config.items}]

\* copy_to_target, lines 120-124: the possible values of item_list, or the
\* panic that ends the match
item_list_of(config, from, f) ==
    CASE config.tag = "Nothing" -> [err |-> PanicNoItems, lists |-> {}]
      [] config.tag = "All" ->
            IF get_folder_contents(f, from) = {}
            THEN [err |-> PanicFs, lists |-> {}]
            ELSE [err |-> NoPanic, lists |-> get_folder_contents(f, from)]
      [] OTHER -> [err |-> NoPanic, lists |-> {config.items}]

\* any_absolute with a loop that looks at the first item only
any_absolute_first(item_list) ==
    item_list # <<>> /\ is_absolute(item_list[1])

\* copy_to_target, lines 125-129: the loop that looks for an absolute item
any_absolute(item_list) ==
    \E i \in 1..Len(item_list) : is_absolute(item_list[i])

\* copy_to_target, lines 125-136, once item_list is known
StageList(f, from, to, item_list) ==
    LET resolved == <<[e |-> "item_list", items |-> item_list]>>
    IN  IF any_absolute(item_list)
        THEN {[fs |-> f, events |-> resolved, err |-> PanicAbsolute]}
        ELSE LET rm == RemoveItems(f, to, item_list)
             IN  {[fs |-> c.fs,
                   events |-> resolved \o rm.events \o c.events,
                   err |-> IF c.ok THEN NoPanic ELSE PanicFs] :
                     c \in CopyItems(rm.fs, from, to, item_list)}

\* copy_to_target(config, from, to): the possible results [fs, events, err]
copy_to_target(config, from, to, f) ==
    LET il == item_list_of(config, from, f)
    IN  IF il.err # NoPanic
        THEN {[fs |-> f, events |-> <<>>, err |-> il.err]}
        ELSE UNION {StageList(f, from, to, l) : l \in il.lists}

----------------------------------------------------------------------------
(* The inputs explored *)

\* values of the NODE_ENV variable and arguments of Build::node_env
EnvStrings == {"production", "development", "staging", ""}

\* spellings of directory paths handed to the directory setters
Dirs == {"", "/proj", "out"}

\* paths handed to copy_items
Items ==
    {RelPath(<<"a.txt">>), RelPath(<<"src">>), RelPath(<<"src", "index.js">>),
     AbsPath(<<"etc">>)}

ItemLists == UNION {[1..n -> Items] : n \in 0..MaxItems}

\* the lists explored together with the whole builder
FewItemLists ==
    {<<RelPath(<<"src">>)>>, <<RelPath(<<"src">>), AbsPath(<<"etc">>)>>}

ScriptNames == {"build"}

\* how a started npm ends, or that it did not start
Statuses == {"exit0", "exit1", "nostart"}

\* the project in the directory of build.rs
ProjTree ==
    (<<"a.txt">> :> "A1") @@ (<<"src">> :> "dir") @@
    (<<"src", "index.js">> :> "I1") @@ (<<"src", "node_modules">> :> "M1") @@
    (<<"node_modules">> :> "dir") @@ (<<"node_modules", "dep">> :> "D1")

\* what an earlier build left in the directory out
StaleTree ==
    (<<"src">> :> "dir") @@ (<<"src", "index.js">> :> "I0") @@
    (<<"src", "old.txt">> :> "O0") @@ (<<"index.js">> :> "J0") @@
    (<<"node_modules">> :> "dir") @@ (<<"node_modules", "dep">> :> "D0")

----------------------------------------------------------------------------
(* The builder *)

\* Build::new
Init ==
    /\ release \in BOOLEAN
    /\ ambient \in {Unset} \cup {SetTo(s) : s \in EnvStrings}
    /\ project_directory = ""
    /\ copy = CopyNothing
    /\ target_directory = ""
    /\ installed = FALSE
    /\ node_env = node_env_default(ambient, release)
    /\ fs \in {[d \in PhysDirs |->
                  IF d = "cwd" THEN [exists |-> TRUE, tree |-> ProjTree] ELSE o] :
               o \in {NoDir, [exists |-> TRUE, tree |-> StaleTree]}}
    /\ log = <<>>
    /\ panic = NoPanic
    /\ procs = <<>>

\* the history after a directory setter: one mark between npm invocations
Marked(h) ==
    IF h = <<>> \/ h[Len(h)] = "setdir" THEN h ELSE Append(h, "setdir")

\* Build::node_env
SetNodeEnv(value) ==
    /\ panic = NoPanic
    /\ node_env' = node_env_of(value)
    /\ log' = <<>>
    /\ UNCHANGED <<project_directory, copy, target_directory, installed,
                   release, ambient, fs, panic, procs>>

\* Build::target_directory with the flag set instead of reset
SetTargetDirectory_sets(directory) ==
    /\ panic = NoPanic
    /\ target_directory' = directory
    /\ installed' = TRUE
    /\ log' = <<>>
    /\ procs' = Marked(procs)
    /\ UNCHANGED <<project_directory, copy, node_env, release, ambient, fs, panic>>

\* Build::target_directory
SetTargetDirectory(directory) ==
    /\ panic = NoPanic
    /\ target_directory' = directory
    /\ installed' = FALSE
    /\ log' = <<>>
    /\ procs' = Marked(procs)
    /\ UNCHANGED <<project_directory, copy, node_env, release, ambient, fs, panic>>

\* Build::project_directory
SetProjectDirectory(directory) ==
    /\ panic = NoPanic
    /\ project_directory' = directory
    /\ installed' = FALSE
    /\ log' = <<>>
    /\ procs' = Marked(procs)
    /\ UNCHANGED <<copy, target_directory, node_env, release, ambient, fs, panic>>

\* Build::copy_items
SetCopyItems(items) ==
    /\ panic = NoPanic
    /\ copy' = CopySome(items)
    /\ log' = <<>>
    /\ UNCHANGED <<project_directory, target_directory, installed, node_env,
                   release, ambient, fs, panic, procs>>

\* Build::copy_all with the reset of the directory setters
SetCopyAll_resets ==
    /\ panic = NoPanic
    /\ copy' = CopyAll
    /\ installed' = FALSE
    /\ log' = <<>>
    /\ procs' = Marked(procs)
    /\ UNCHANGED <<project_directory, target_directory, node_env,
                   release, ambient, fs, panic>>

\* Build::copy_all
SetCopyAll ==
    /\ panic = NoPanic
    /\ copy' = CopyAll
    /\ log' = <<>>
    /\ UNCHANGED <<project_directory, target_directory, installed, node_env,
                   release, ambient, fs, panic, procs>>

----------------------------------------------------------------------------
(* Build::run_script *)

\* needs_install with the bug of a directory setter that does not reset:
\* one install for the whole life of the Build
needs_install_first(flag) ==
    ~flag /\ \A i \in 1..Len(procs) : procs[i] # "install"

\* line 244: the install phase runs when the flag is not set
needs_install(flag) == ~flag

\* needs_staging with the comparison of the directories left out
needs_staging_always(from, to) == TRUE

\* line 246: staging runs when the two paths differ
needs_staging(from, to) == from # to

\* install_cmd without the test of the build profile
install_cmd_mutable == "install"

\* line 250
install_cmd == IF is_release THEN "ci" ELSE "install"

\* Command run in the project directory instead of the directory given
Command_in_project(args, env, dir, status) ==
    [e |-> "spawn", args |-> args, env |-> to_env_var(env),
     cwd |-> project_directory, status |-> status]

\* Command::new(&npm).env("NODE_ENV", ..).arg(s)(..).current_dir(..).status()
Command(args, env, dir, status) ==
    [e |-> "spawn", args |-> args, env |-> to_env_var(env), cwd |-> dir,
     status |-> status]

\* install_panic without the test of the exit status
install_panic_unchecked(status) ==
    IF status = "nostart" THEN PanicInstallStart ELSE NoPanic

\* lines 257-260: the panic after npm install/ci, if any
install_panic(status) ==
    CASE status = "nostart" -> PanicInstallStart
      [] status = "exit1" -> PanicInstallExit
      [] OTHER -> NoPanic

\* lines 268-274: the panic after npm run, if any
run_panic(status) ==
    CASE status = "nostart" -> PanicRunStart
      [] status = "exit1" -> PanicRunExit
      [] OTHER -> NoPanic

\* InstallPhase with npm install/ci run before the files are staged
InstallPhase_install_first(mkdir_ok, install_status) ==
    IF ~mkdir_ok
    THEN {[fs |-> fs,
           events |-> <<[e |-> "create_dir_all", dir |-> target_directory, ok |-> FALSE]>>,
           panic |-> PanicMkdir]}
    ELSE LET made == [fs EXCEPT ![Resolve(target_directory)].exists = TRUE]
             mk == <<[e |-> "create_dir_all", dir |-> target_directory, ok |-> TRUE]>>
             npm == Command(<<install_cmd>>, node_env, target_directory, install_status)
             staged ==
                 IF needs_staging(project_directory, target_directory)
                 THEN copy_to_target(copy, project_directory, target_directory, made)
                 ELSE {[fs |-> made, events |-> <<>>, err |-> NoPanic]}
         IN  IF install_panic(install_status) # NoPanic
             THEN {[fs |-> made, events |-> mk \o <<npm>>,
                    panic |-> install_panic(install_status)]}
             ELSE {[fs |-> s.fs, events |-> mk \o <<npm>> \o s.events,
                    panic |-> s.err] : s \in staged}

\* InstallPhase with the target directory created after the files are staged
InstallPhase_stage_first(mkdir_ok, install_status) ==
    LET staged ==
            IF needs_staging(project_directory, target_directory)
            THEN copy_to_target(copy, project_directory, target_directory, fs)
            ELSE {[fs |-> fs, events |-> <<>>, err |-> NoPanic]}
        npm == Command(<<install_cmd>>, node_env, target_directory, install_status)
    IN  {IF s.err # NoPanic
         THEN [fs |-> s.fs, events |-> s.events, panic |-> s.err]
         ELSE IF ~mkdir_ok
         THEN [fs |-> s.fs,
               events |-> s.events \o
                   <<[e |-> "create_dir_all", dir |-> target_directory, ok |-> FALSE]>>,
               panic |-> PanicMkdir]
         ELSE [fs |-> [s.fs EXCEPT ![Resolve(target_directory)].exists = TRUE],
               events |-> s.events \o
                   <<[e |-> "create_dir_all", dir |-> target_directory, ok |-> TRUE]>>
                   \o <<npm>>,
               panic |-> install_panic(install_status)] : s \in staged}

\* lines 245-260: the possible results [fs, events, panic] of the install phase
InstallPhase(mkdir_ok, install_status) ==
    IF ~mkdir_ok
    THEN {[fs |-> fs,
           events |-> <<[e |-> "create_dir_all", dir |-> target_directory, ok |-> FALSE]>>,
           panic |-> PanicMkdir]}
    ELSE LET made == [fs EXCEPT ![Resolve(target_directory)].exists = TRUE]
             mk == <<[e |-> "create_dir_all", dir |-> target_directory, ok |-> TRUE]>>
             staged ==
                 IF needs_staging(project_directory, target_directory)
                 THEN copy_to_target(copy, project_directory, target_directory, made)
                 ELSE {[fs |-> made, events |-> <<>>, err |-> NoPanic]}
             npm == Command(<<install_cmd>>, node_env, target_directory, install_status)
         IN  {IF s.err # NoPanic
              THEN [fs |-> s.fs, events |-> mk \o s.events, panic |-> s.err]
              ELSE [fs |-> s.fs, events |-> mk \o s.events \o <<npm>>,
                    panic |-> install_panic(install_status)] : s \in staged}

\* the npm subcommands among the events, in order
RECURSIVE Spawned(_)
Spawned(events) ==
    IF events = <<>>
    THEN <<>>
    ELSE (IF Head(events).e = "spawn"
          THEN <<IF Head(events).args[1] = "run" THEN "run" ELSE "install">>
          ELSE <<>>) \o Spawned(Tail(events))

\* Build::run_script: the possible results [fs, log, panic, installed].
\* No line of the function assigns self.installed: it is returned as it
\* was.  What npm itself writes below the target directory is not part of
\* the file system modelled here.
run_script(script_name, found, mkdir_ok, install_status, run_status) ==
    LET which == <<[e |-> "which", found |-> found]>>
    IN  IF ~found
        THEN {[fs |-> fs, log |-> which, panic |-> PanicNoNpm, installed |-> installed]}
        ELSE LET pre == IF needs_install(installed)
                        THEN InstallPhase(mkdir_ok, install_status)
                        ELSE {[fs |-> fs, events |-> <<>>, panic |-> NoPanic]}
                 npm == Command(<<"run", script_name>>, node_env, target_directory,
                                run_status)
             IN  {IF p.panic # NoPanic
                  THEN [fs |-> p.fs, log |-> which \o p.events, panic |-> p.panic,
                        installed |-> installed]
                  ELSE [fs |-> p.fs, log |-> which \o p.events \o <<npm>>,
                        panic |-> run_panic(run_status),
                        installed |-> installed] : p \in pre}

\* the run_script calls that reached npm run
Calls(h) == Cardinality({i \in 1..Len(h) : h[i] = "run"})

RunScript(script_name) ==
    /\ panic = NoPanic
    /\ Calls(procs) < MaxCalls
    /\ \E found \in BOOLEAN, install_status \in Statuses, run_status \in Statuses,
          mkdir_ok \in IF fs[Resolve(target_directory)].exists THEN {TRUE} ELSE BOOLEAN :
          \E r \in run_script(script_name, found, mkdir_ok, install_status, run_status) :
             /\ fs' = r.fs
             /\ log' = r.log
             /\ panic' = r.panic
             /\ installed' = r.installed
             /\ procs' = procs \o Spawned(r.log)
    /\ UNCHANGED <<project_directory, copy, target_directory, node_env, release, ambient>>

Next ==
    \/ \E value \in EnvStrings : SetNodeEnv(value)
    \/ \E directory \in Dirs : SetTargetDirectory(directory)
    \/ \E directory \in Dirs : SetProjectDirectory(directory)
    \/ \E items \in FewItemLists : SetCopyItems(items)
    \/ SetCopyAll
    \/ \E script_name \in ScriptNames : RunScript(script_name)

Spec == Init /\ [][Next]_vars

\* The staging engine on every list of items: the builder is configured
\* once, before its first run_script
Configuring == log = <<>> /\ procs = <<>>

StageNext ==
    \/ \E directory \in Dirs : Configuring /\ SetTargetDirectory(directory)
    \/ \E directory \in Dirs : Configuring /\ SetProjectDirectory(directory)
    \/ \E items \in ItemLists : Configuring /\ SetCopyItems(items)
    \/ Configuring /\ SetCopyAll
    \/ \E script_name \in ScriptNames : RunScript(script_name)

SpecStage == Init /\ [][StageNext]_vars

----------------------------------------------------------------------------
(* Reading the log and the history *)

\* run_script was the call made last
AfterRunScript == log # <<>>

\* the call made last returned to its caller
Returned == panic = NoPanic

IsInstall(ev) == ev.e = "spawn" /\ ev.args[1] # "run"

IsRun(ev) == ev.e = "spawn" /\ ev.args[1] = "run"

InstallSpawned == \E i \in 1..Len(log) : IsInstall(log[i])

RunSpawned == \E i \in 1..Len(log) : IsRun(log[i])

\* the call made last removed or copied something, or tried to
StagingOps == {i \in 1..Len(log) : log[i].e \in {"remove", "copy"}}

\* the call made last found npm and created the target directory, so that
\* it came to the comparison of the two directories
ReachedStaging ==
    \E i \in 1..Len(log) : log[i].e = "create_dir_all" /\ log[i].ok

\* the event of the call made last succeeded
Succeeded(ev) ==
    CASE ev.e = "which" -> ev.found
      [] ev.e = "create_dir_all" -> ev.ok
      [] ev.e = "copy" -> ev.ok
      [] ev.e = "spawn" -> ev.status = "exit0"
      [] OTHER -> TRUE

\* the list holds an absolute path
HasAbsoluteItem(items) == \E i \in 1..Len(items) : items[i].abs

\* the i-th npm run of the history exited with zero
RunOk(i) == procs[i] = "run" /\ (i < Len(procs) \/ Returned)

----------------------------------------------------------------------------
(* C1 *)

\* C1 (P1, idempotent install): between two run subcommands that both
\* succeeded, with no directory setter between them, no install subcommand
\* is invoked: two such run_script calls give install, run, run.
C1_SecondCallSkipsInstall ==
    \A i, j \in 1..Len(procs) :
        (i < j /\ RunOk(i) /\ RunOk(j) /\ \A k \in i..j : procs[k] # "setdir")
            => \A k \in i..j : procs[k] # "install"

----------------------------------------------------------------------------
(* C2 *)

\* C2 (P2): after a directory setter that follows a successful install,
\* installed is false, and the next npm invocation is the install
\* subcommand, before the run subcommand of that call.
C2_DirectoryChangeReinstalls ==
    \A i \in 1..Len(procs) :
        (procs[i] = "setdir" /\ \E h \in 1..(i - 1) : procs[h] = "install")
            => /\ i = Len(procs) => ~installed
               /\ i < Len(procs) => procs[i + 1] = "install"

\* a second call, after a directory setter, has installed and run again
C2_Witness ==
    /\ procs = <<"install", "run", "setdir", "install", "run">>
    /\ Returned

----------------------------------------------------------------------------
(* C3 *)

\* C3: when run_script returns after an install subcommand that exited
\* with zero, installed is true.
C3_InstalledAfterInstall ==
    (AfterRunScript /\ Returned /\ InstallSpawned) => installed

----------------------------------------------------------------------------
(* C4 *)

\* C4 (P3, same-directory no-op): a run_script call with project_directory
\* equal to target_directory removes nothing, copies nothing and raises
\* neither configuration error, whatever the copy policy; once npm is found
\* and the target directory exists it invokes the install subcommand, and
\* after its success the run subcommand.
C4_SameDirectoryNoStaging ==
    (AfterRunScript /\ project_directory = target_directory)
        => /\ StagingOps = {}
           /\ panic \notin {PanicNoItems, PanicAbsolute, PanicFs}
           /\ ReachedStaging => InstallSpawned
           /\ (\E i \in 1..Len(log) : IsInstall(log[i]) /\ log[i].status = "exit0")
                 => RunSpawned

\* equal directories, an explicit list with an absolute path, and the call
\* returned after install and run
C4_Witness ==
    /\ AfterRunScript
    /\ project_directory = target_directory
    /\ copy.tag = "Some"
    /\ HasAbsoluteItem(copy.items)
    /\ InstallSpawned
    /\ RunSpawned
    /\ Returned

----------------------------------------------------------------------------
(* C5 *)

\* C5: a run_script call with differing directories and the copy policy
\* Nothing panics without a remove, a copy or an npm invocation; the panic
\* is the configuration error of copy_to_target once npm was found and the
\* target directory created.
C5_NoPolicyIsFatal ==
    (AfterRunScript /\ project_directory # target_directory /\ copy = CopyNothing)
        => /\ ~Returned
           /\ StagingOps = {}
           /\ ~InstallSpawned
           /\ ~RunSpawned
           /\ ReachedStaging => panic = PanicNoItems

\* the configuration error of a call with differing directories and no policy
C5_Witness ==
    /\ AfterRunScript
    /\ project_directory # target_directory
    /\ copy = CopyNothing
    /\ ReachedStaging
    /\ panic = PanicNoItems

----------------------------------------------------------------------------
(* C6 *)

\* the entries of every directory
Trees(f) == [d \in PhysDirs |-> f[d].tree]

\* C6 (P5, absolute path rejection): a run_script call that comes to
\* staging with differing directories and an explicit list holding an
\* absolute path, at any position, panics with the configuration error
\* and leaves every directory as it was, with no remove and no copy;
\* copy_items itself accepts the list.
C6_AbsoluteItemRejected ==
    [][/\ (/\ log' # <<>>
           /\ project_directory # target_directory
           /\ copy.tag = "Some"
           /\ HasAbsoluteItem(copy.items)
           /\ \E i \in 1..Len(log') : log'[i].e = "create_dir_all" /\ log'[i].ok)
          => /\ panic' = PanicAbsolute
             /\ Trees(fs') = Trees(fs)
             /\ \A i \in 1..Len(log') : log'[i].e \notin {"remove", "copy", "spawn"}
       /\ (log' = <<>> /\ copy'.tag = "Some") => panic' = NoPanic]_vars

\* the configuration error for a list of a valid item followed by an
\* absolute one
C6_Witness ==
    /\ AfterRunScript
    /\ project_directory # target_directory
    /\ copy.tag = "Some"
    /\ Len(copy.items) = 2
    /\ ~is_absolute(copy.items[1])
    /\ is_absolute(copy.items[2])
    /\ panic = PanicAbsolute

----------------------------------------------------------------------------
(* C7 *)

\* the names of the immediate children in the tree t
Children(t) == {q[1] : q \in {r \in DOMAIN t : Len(r) = 1}}

\* the item_list of the call made last, when it came to have one
ItemList(l) == l[CHOOSE i \in 1..Len(l) : l[i].e = "item_list"].items

HasItemList(l) == \E i \in 1..Len(l) : l[i].e = "item_list"

\* staging went through: there was an item_list and neither the check of
\* the paths nor remove_items nor copy_items failed
StagingDone(l, pnc) == HasItemList(l) /\ pnc \notin {PanicAbsolute, PanicFs}

\* C7 (P4, exclusion rule): in a run_script call with the copy-all policy
\* and differing directories, item_list is the set of the immediate
\* children of the project directory other than node_modules; no remove
\* or copy names node_modules at the top level and node_modules at the
\* target stays as it was; when staging goes through every listed child
\* is at the target as it was at the source, a node_modules below the top
\* level included.
C7_CopyAllExcludesNodeModules ==
    [][(/\ log' # <<>>
        /\ project_directory # target_directory
        /\ copy = CopyAll
        /\ HasItemList(log'))
          => LET P == fs[Resolve(project_directory)].tree
                 T == fs[Resolve(target_directory)].tree
                 T2 == fs'[Resolve(target_directory)].tree
                 items == ItemList(log')
             IN  /\ {items[i] : i \in 1..Len(items)}
                       = {RelPath(<<n>>) : n \in Children(P) \ {"node_modules"}}
                 /\ \A i, j \in 1..Len(items) : items[i] = items[j] => i = j
                 /\ \A i \in 1..Len(log') :
                       /\ log'[i].e = "remove" => log'[i].path[1] # "node_modules"
                       /\ log'[i].e = "copy" =>
                             /\ log'[i].path[1] # "node_modules"
                             /\ log'[i].dest[1] # "node_modules"
                 /\ Subtree(T2, <<"node_modules">>) = Subtree(T, <<"node_modules">>)
                 /\ StagingDone(log', panic') =>
                       \A n \in Children(P) \ {"node_modules"} :
                           Subtree(T2, <<n>>) = Subtree(P, <<n>>)]_vars

\* copy-all into a directory that had a node_modules of its own: a.txt and
\* src are there, src/node_modules too, and node_modules is the old one
C7_Witness ==
    /\ AfterRunScript
    /\ copy = CopyAll
    /\ project_directory = ""
    /\ target_directory = "out"
    /\ StagingDone(log, panic)
    /\ LET T == fs["out"].tree
       IN  /\ {<<"a.txt">>, <<"src", "index.js">>, <<"src", "node_modules">>,
                 <<"node_modules", "dep">>} \subseteq DOMAIN T
           /\ T[<<"src", "index.js">>] = "I1"
           /\ <<"src", "old.txt">> \notin DOMAIN T
           /\ T[<<"node_modules", "dep">>] = "D0"

----------------------------------------------------------------------------
(* C8 *)

\* C8 (P6, full overwrite): when staging went through, for every item of
\* item_list the entries at and below target_directory/item are those at
\* and below project_directory/item.
C8_TargetItemEqualsSource ==
    (AfterRunScript /\ StagingDone(log, panic))
        => \A i \in 1..Len(ItemList(log)) :
              Subtree(fs[Resolve(target_directory)].tree, ItemList(log)[i].comps)
                  = Subtree(fs[Resolve(project_directory)].tree, ItemList(log)[i].comps)

----------------------------------------------------------------------------
(* C9 *)

\* C9 (fail-stop sequencing): the run subcommand is invoked only after
\* npm was found and every earlier step of the call succeeded, the install
\* phase among them when the call had one; a call that panics before npm
\* run does not invoke it; the call returns exactly when the run
\* subcommand exited with zero.
C9_FailStop ==
    AfterRunScript
        => /\ \A i \in 1..Len(log) :
                 IsRun(log[i]) =>
                     /\ i = Len(log)
                     /\ \A k \in 1..(i - 1) : Succeeded(log[k])
                     /\ log[1].e = "which"
                     /\ ~installed =>
                           \E k \in 1..(i - 1) : IsInstall(log[k])
           /\ Returned <=> (IsRun(log[Len(log)]) /\ log[Len(log)].status = "exit0")
           /\ panic \notin {NoPanic, PanicRunStart, PanicRunExit} => ~RunSpawned

\* npm install exited with a status other than zero: the call panicked and
\* npm run was not invoked
C9_Witness ==
    /\ AfterRunScript
    /\ \E i \in 1..Len(log) : IsInstall(log[i]) /\ log[i].status = "exit1"
    /\ panic = PanicInstallExit
    /\ ~RunSpawned

----------------------------------------------------------------------------
(* C10 *)

\* the string NODE_ENV is set to for a NodeEnv, by its three cases
EnvValue(e) ==
    IF e = Production THEN "production"
    ELSE IF e = Development THEN "development"
    ELSE e.str

\* C10 (environment propagation): every npm invocation of a run_script
\* call, install and run alike, has target_directory as its working
\* directory and the string of the current NodeEnv as NODE_ENV.
C10_EnvironmentPropagated ==
    \A i \in 1..Len(log) :
        log[i].e = "spawn"
            => /\ log[i].cwd = target_directory
               /\ log[i].env = EnvValue(node_env)
               /\ \A j \in 1..Len(log) : log[j].e = "spawn" => log[j].env = log[i].env

\* install and run in the directory out with NODE_ENV=staging
C10_Witness ==
    /\ AfterRunScript
    /\ target_directory = "out"
    /\ project_directory # target_directory
    /\ node_env = Custom("staging")
    /\ \E i, j \in 1..Len(log) :
          /\ IsInstall(log[i]) /\ IsRun(log[j])
          /\ log[i].env = "staging" /\ log[j].env = "staging"
          /\ log[i].cwd = "out" /\ log[j].cwd = "out"

----------------------------------------------------------------------------
(* C11 *)

\* C11 (install subcommand selection): the install subcommand of a
\* run_script call is "ci" when the build profile is release and "install"
\* when it is not, whatever the directories, the copy policy and the
\* NodeEnv are.
C11_InstallSubcommand ==
    \A i \in 1..Len(log) :
        IsInstall(log[i])
            => log[i].args = <<IF release THEN "ci" ELSE "install">>

\* npm ci in a release build, with staged directories and a custom NODE_ENV
C11_Witness ==
    /\ AfterRunScript
    /\ release
    /\ project_directory # target_directory
    /\ copy = CopyAll
    /\ node_env.tag = "Custom"
    /\ \E i \in 1..Len(log) : IsInstall(log[i]) /\ log[i].args = <<"ci">>

----------------------------------------------------------------------------
(* C12 *)

\* the npm invocations made before the call made last
Before == SubSeq(procs, 1, Len(procs) - Len(Spawned(log)))

\* C12 (staging at most once): a run_script call that follows a call that
\* returned, with no directory setter between the two, does not come to
\* copy_to_target: it has no item_list, no remove and no copy.
C12_StagingOnce ==
    (AfterRunScript /\ Before # <<>> /\ Before[Len(Before)] = "run")
        => ~HasItemList(log) /\ StagingOps = {}

----------------------------------------------------------------------------
(* C13 *)

\* C13 (invariant of the installed flag): installed is true only when,
\* after the last directory setter, an install subcommand was invoked,
\* which staging precedes, and exited with zero, so that npm run followed
\* it; installed is false after Build::new and after a directory setter.
C13_InstalledOnlyAfterInstall ==
    /\ installed =>
          \E i \in 1..(Len(procs) - 1) :
              /\ procs[i] = "install"
              /\ procs[i + 1] = "run"
              /\ \A k \in i..Len(procs) : procs[k] # "setdir"
    /\ (procs = <<>> /\ log = <<>>) => ~installed
    /\ (procs # <<>> /\ procs[Len(procs)] = "setdir") => ~installed

\* a directory setter called after a call that installed and ran
C13_Witness ==
    /\ procs = <<"install", "run", "setdir">>
    /\ log = <<>>
    /\ ~installed

----------------------------------------------------------------------------
(* C14 *)

\* C14 (the destination keeps the relative path): every copy of a
\* run_script call writes project_directory/p to target_directory/p, the
\* place remove_items cleared for it, for items of several components too.
C14_DestinationKeepsPath ==
    \A i \in 1..Len(log) :
        log[i].e = "copy"
            => /\ log[i].dest = log[i].path
               /\ log[i].from = project_directory
               /\ log[i].dir = target_directory
               /\ \E k \in 1..(i - 1) :
                     /\ log[k].e = "remove"
                     /\ log[k].dir = log[i].dir
                     /\ log[k].path = log[i].dest

----------------------------------------------------------------------------
(* C15 *)

\* the path is at or below an item of the list
Listed(items, q) == \E i \in 1..Len(items) : IsPrefix(items[i].comps, q)

\* the trees t and u have the same entry, or both none, at the path q
SameAt(t, u, q) ==
    /\ q \in DOMAIN t <=> q \in DOMAIN u
    /\ q \in DOMAIN t => t[q] = u[q]

\* C15 (frame of staging): a run_script call that comes to have an
\* item_list changes in the target directory only entries at or below
\* target_directory/item for the items of the list, and leaves the entries
\* of the project directory as they were.
C15_StagingFrame ==
    [][(log' # <<>> /\ HasItemList(log'))
          => LET T == fs[Resolve(target_directory)].tree
                 T2 == fs'[Resolve(target_directory)].tree
                 P == fs[Resolve(project_directory)].tree
                 P2 == fs'[Resolve(project_directory)].tree
             IN  /\ \A q \in DOMAIN T \cup DOMAIN T2 :
                       ~Listed(ItemList(log'), q) => SameAt(T, T2, q)
                 /\ P2 = P]_vars

----------------------------------------------------------------------------
(* C16 *)

\* the place of an event in the order of run_script
Step(ev) ==
    CASE ev.e = "which" -> 1
      [] ev.e = "create_dir_all" -> 2
      [] ev.e \in {"item_list", "remove", "copy"} -> 3
      [] IsInstall(ev) -> 4
      [] OTHER -> 5

\* C16 (step order): a run_script call that starts with installed false
\* looks for npm first, then creates target_directory, then stages, and
\* that only when the two directories differ, then invokes the install
\* subcommand, then the run subcommand, each step once; when npm is not
\* found it does nothing else and changes no directory.
C16_StepOrder ==
    [][(log' # <<>> /\ ~installed)
          => /\ log'[1].e = "which"
             /\ \A i, j \in 1..Len(log') : i < j => Step(log'[i]) <= Step(log'[j])
             /\ \A i, j \in 1..Len(log') :
                   (i < j /\ Step(log'[i]) = Step(log'[j])) => Step(log'[i]) = 3
             /\ \A i \in 1..Len(log') :
                   Step(log'[i]) = 3 => project_directory # target_directory
             /\ \A i \in 1..Len(log') : IsRun(log'[i]) =>
                   \E k \in 1..(i - 1) : IsInstall(log'[k])
             /\ \A i \in 1..Len(log') : IsInstall(log'[i]) =>
                   \E k \in 1..(i - 1) : log'[k].e = "create_dir_all"
             /\ panic' = PanicNoNpm => (Len(log') = 1 /\ fs' = fs)]_vars

\* a call that went through all five steps in the directory out
C16_Witness ==
    /\ AfterRunScript
    /\ project_directory # target_directory
    /\ Returned
    /\ {Step(log[i]) : i \in 1..Len(log)} = {1, 2, 3, 4, 5}

----------------------------------------------------------------------------
(* C17 *)

\* the NodeEnv that stands for the string v
Verbatim(e, v) ==
    /\ e.tag = (IF v = "production" THEN "Production"
                ELSE IF v = "development" THEN "Development" ELSE "Custom")
    /\ EnvValue(e) = v

\* C17 (the setter is verbatim): node_env(v) stores the NodeEnv that
\* stands for v, Production and Development for their two strings and
\* Custom(v) for any other, the empty string too; a run_script call sets
\* NODE_ENV of every npm invocation to the string of the NodeEnv stored
\* last, whatever the environment of the build script holds.
C17_SetterVerbatim ==
    [][/\ \A v \in EnvStrings : SetNodeEnv(v) => Verbatim(node_env', v)
       /\ log' # <<>> =>
             /\ node_env' = node_env
             /\ \A i \in 1..Len(log') :
                   log'[i].e = "spawn" => log'[i].env = EnvValue(node_env)]_vars

\* npm ran with NODE_ENV empty although the environment said production
C17_Witness ==
    /\ AfterRunScript
    /\ ambient = SetTo("production")
    /\ node_env = Custom("")
    /\ \E i \in 1..Len(log) : IsRun(log[i]) /\ log[i].env = ""

----------------------------------------------------------------------------
(* C18 *)

----------------------------------------------------------------------------
(* C19 *)

\* C19 (frame of the other setters): a step that changes the copy policy
\* without a run_script call changes nothing else of the Build, and so
\* does a step that changes the NodeEnv: the two directories, the
\* installed flag and the history of npm invocations stay as they were.
C19_SetterFrame ==
    [][/\ (copy' # copy \/ SetCopyAll \/ \E l \in ItemLists : SetCopyItems(l))
             => UNCHANGED <<project_directory, target_directory, installed,
                            node_env, fs, procs, panic>>
       /\ (node_env' # node_env \/ \E v \in EnvStrings : SetNodeEnv(v))
             => UNCHANGED <<project_directory, target_directory, installed,
                            copy, fs, procs, panic>>]_vars

\* the copy policy was set after an install, and no directory since
C19_Witness ==
    /\ procs = <<"install", "run">>
    /\ log = <<>>
    /\ copy = CopyAll
    /\ project_directory # target_directory

----------------------------------------------------------------------------
(* C20 *)

\* C20 (the target directory is created before the configuration is
\* looked at): a run_script call that panicked for want of a copy policy
\* or for an absolute item had created target_directory, which exists,
\* and removed, copied and invoked nothing.
C20_MkdirBeforeValidation ==
    (AfterRunScript /\ panic \in {PanicNoItems, PanicAbsolute})
        => /\ project_directory # target_directory
           /\ ReachedStaging
           /\ fs[Resolve(target_directory)].exists
           /\ StagingOps = {}
           /\ Spawned(log) = <<>>

\* the directory out is there, empty, after a call without a copy policy
C20_Witness ==
    /\ AfterRunScript
    /\ panic = PanicNoItems
    /\ target_directory = "out"
    /\ fs["out"] = [exists |-> TRUE, tree |-> EmptyTree]

====
